---- MODULE Spec2Model ----
(***************************************************************************)
(* IndexedCP (python): the client's upload buffer, retry engine and        *)
(* background scheduler (src/python/src/indexedcp/client.py) over the      *)
(* SQLite chunk store (storage/sqlite_storage.py), and the server's        *)
(* append-based reassembly (server.py).                                    *)
(*                                                                         *)
(* The client API is driven by one caller coroutine, which awaits each     *)
(* call before making the next.  The background loop is a separate asyncio *)
(* task.  Coroutines interleave at their suspension points only: the       *)
(* storage calls (asyncio.to_thread) and asyncio.sleep.  _upload_chunk     *)
(* uses blocking urllib and never suspends, so a transport call and the    *)
(* server's handling of it are one step.                                   *)
(***************************************************************************)
EXTENDS Integers, Sequences, FiniteSets, TLC

\* ---- bounds of the model
MaxTime == 2
MaxChunks == 2
MaxAdds == 2
MaxTasks == 2
MaxCrashes == 1
SmallRetries == 2
SmallDelayCap == 1
MaxNameLen == 4
MaxRequests == 3
MaxFileSize == 4
MaxChunkSize == 3
MaxOutage == 1026

\* ---- program constants
Infinity == 1000000
initial_retry_delay == 1
retry_multiplier == 2
DefaultMaxRetryDelay == 60
MaxErrors == 5
None == -1
MsPerSecond == 1000
FloatMaxExponent == 1024

Files == {"a", "b"}

\* the number of chunks add_file cuts file f into
ChunkCount(f) == IF f = "a" THEN MaxChunks ELSE 1

Caller == 0
Tasks == 1..MaxTasks
Procs == {Caller} \cup Tasks

VARIABLES
  clock,                      \* time.time(), in seconds
  cfg,                        \* constructor arguments
  storage,                    \* rows of the chunks table, ORDER BY created_at
  uploads,                    \* server: bodies appended per X-File-Name, in receipt order
  pass,                       \* per coroutine: position inside an upload pass
  callerPc, addFile, addIndex,\* the caller coroutine
  background_upload_task,     \* None or the task the client refers to
  background_upload_running,  \* reentrancy flag
  taskPc, cancelRequested,    \* per loop task
  crashes,                    \* times the client process died
  startIgnored,               \* history: the last start_upload_background found the loop running
  addCount, delivered,        \* history: add_file calls per file; chunks acknowledged and deleted
  path_mode,                  \* server: 'sanitize', 'ignore' or 'allow-paths'
  upload_sessions,            \* server: client filename -> actual filename
  disk,                       \* server host: resolved path -> bodies appended, in order
  requests,                   \* server: upload requests awaiting request.body()
  resolution,                 \* history: how the last upload request was answered or resolved
  nreq,                       \* history: upload requests received
  clients,                     \* which filenames and headers clients send, and how many requests
  fileBytes, chunk_size,      \* add_file: the bytes of the file, the client's chunk_size
  filePos, chunk_index,       \* add_file: the position of f, the local chunk_index
  chunkRows,                  \* add_file: the rows it saved
  addReturn                   \* add_file: None, or the value returned

vars == <<clock, cfg, storage, uploads, pass, callerPc, addFile, addIndex,
          background_upload_task, background_upload_running, taskPc, cancelRequested,
          crashes, startIgnored, addCount, delivered,
          path_mode, upload_sessions, disk, requests, resolution, nreq, clients,
          fileBytes, chunk_size, filePos, chunk_index, chunkRows, addReturn>>

chunkVars == <<fileBytes, chunk_size, filePos, chunk_index, chunkRows, addReturn>>

serverVars == <<path_mode, upload_sessions, disk, requests, resolution, nreq, clients>>

clientVars == <<cfg, storage, uploads, pass, callerPc, addFile, addIndex,
                background_upload_task, background_upload_running, taskPc,
                cancelRequested, crashes, startIgnored, addCount, delivered>>

Min(a, b) == IF a < b THEN a ELSE b

RECURSIVE Pow(_, _)
Pow(b, e) == IF e <= 0 THEN 1 ELSE b * Pow(b, e - 1)

\* ---- chunk records (add_file)
ChunkKey(f, i) == <<f, i>>

DueAtEpoch(f, i, t) ==
  [id |-> ChunkKey(f, i), fileName |-> f, chunkIndex |-> i, data |-> <<f, i>>,
   retryCount |-> 0, lastAttempt |-> None, nextRetry |-> 0, errors |-> <<>>]

NewChunk(f, i, t) ==
  [id |-> ChunkKey(f, i), fileName |-> f, chunkIndex |-> i, data |-> <<f, i>>,
   retryCount |-> 0, lastAttempt |-> None, nextRetry |-> t * MsPerSecond, errors |-> <<>>]

\* ---- SQLiteStorage
HasKey(rows, k) == \E i \in 1..Len(rows) : rows[i].id = k

RECURSIVE RemoveKey(_, _)
RemoveKey(rows, k) ==
  IF rows = <<>> THEN <<>>
  ELSE IF Head(rows).id = k THEN RemoveKey(Tail(rows), k)
  ELSE <<Head(rows)>> \o RemoveKey(Tail(rows), k)

\* REPLACE keeps created_at of an existing key, so the row keeps its place
StorageSave(rows, r) ==
  IF HasKey(rows, r.id)
  THEN [i \in 1..Len(rows) |-> IF rows[i].id = r.id THEN r ELSE rows[i]]
  ELSE Append(rows, r)

StorageDelete(rows, k) == RemoveKey(rows, k)

StorageKeys(rows) == {rows[i].id : i \in 1..Len(rows)}

\* ---- grouping and ordering
RECURSIVE GroupByFileName(_, _)
GroupByFileName(recs, groups) ==
  IF recs = <<>> THEN groups
  ELSE LET r == Head(recs)
           at == {i \in 1..Len(groups) : groups[i].fileName = r.fileName}
       IN GroupByFileName(Tail(recs),
            IF at = {} THEN Append(groups, [fileName |-> r.fileName, chunks |-> <<r>>])
            ELSE LET i == CHOOSE i \in at : TRUE
                 IN [groups EXCEPT ![i].chunks = Append(@, r)])

RECURSIVE InsertByIndex(_, _)
InsertByIndex(sorted, r) ==
  IF sorted = <<>> THEN <<r>>
  ELSE IF r.chunkIndex < Head(sorted).chunkIndex THEN <<r>> \o sorted
  ELSE <<Head(sorted)>> \o InsertByIndex(Tail(sorted), r)

RECURSIVE SortedByIndex(_)
SortedByIndex(chunks) ==
  IF chunks = <<>> THEN <<>>
  ELSE InsertByIndex(SortedByIndex(SubSeq(chunks, 1, Len(chunks) - 1)), chunks[Len(chunks)])

Unsorted(chunks) == chunks

\* chunks.sort(key=chunkIndex)
SortChunks(chunks) == SortedByIndex(chunks)

\* ---- retry policy
NeverReady(c, now) == TRUE

\* nextRetry > now: the chunk is not due yet
AlwaysReady(c, now) == FALSE

NotReady(c, now) == c.nextRetry > now

ReachedAbove(c) == c.retryCount > cfg.max_retries

MaxRetriesReached(c) == c.retryCount >= cfg.max_retries

UncappedDelay(retryCount) ==
  initial_retry_delay * Pow(retry_multiplier, retryCount - 1) * MsPerSecond

\* min(initial_retry_delay * retry_multiplier ** (retryCount - 1), max_retry_delay) * 1000;
\* the power is taken only as far as the minimum needs it
RetryDelay(retryCount) ==
  IF \E k \in 0..(retryCount - 1) :
        initial_retry_delay * Pow(retry_multiplier, k) > cfg.max_retry_delay
  THEN cfg.max_retry_delay * MsPerSecond
  ELSE Min(initial_retry_delay * Pow(retry_multiplier, retryCount - 1),
           cfg.max_retry_delay) * MsPerSecond

\* retry_multiplier ** (retryCount - 1) on floats (the default 2.0) raises OverflowError
\* once the result leaves the range of a double
Overflows(retryCount) == retryCount - 1 >= FloatMaxExponent

LastErrors(errs) ==
  IF Len(errs) > MaxErrors THEN SubSeq(errs, Len(errs) - MaxErrors + 1, Len(errs)) ELSE errs

NoBackoff(c, now) == c

\* the except branch: backoff and error ring of a chunk whose retryCount was raised
Failed(c, now) ==
  [c EXCEPT !.nextRetry = now + RetryDelay(c.retryCount),
            !.errors = LastErrors(Append(c.errors, now))]

\* ---- strings: a filename or a header value is the sequence of its characters
StartsWith(s, prefix) == Len(s) >= Len(prefix) /\ SubSeq(s, 1, Len(prefix)) = prefix

Contains(s, sub) ==
  \E i \in 1..(Len(s) - Len(sub) + 1) : SubSeq(s, i, i + Len(sub) - 1) = sub

\* s[n:]
Slice(s, n) == SubSeq(s, n + 1, Len(s))

\* s.replace(old, new) for single characters
Replace(s, old, new) == [i \in 1..Len(s) |-> IF s[i] = old THEN new ELSE s[i]]

RECURSIVE Split(_, _)
Split(s, sep) ==
  IF \A i \in 1..Len(s) : s[i] # sep THEN <<s>>
  ELSE LET i == CHOOSE i \in 1..Len(s) : s[i] = sep /\ \A j \in 1..(i - 1) : s[j] # sep
       IN <<SubSeq(s, 1, i - 1)>> \o Split(SubSeq(s, i + 1, Len(s)), sep)

DigitChars == <<"0", "1", "2", "3", "4", "5", "6", "7", "8", "9">>

\* str(n) for n >= 0
RECURSIVE Digits(_)
Digits(n) ==
  IF n < 10 THEN <<DigitChars[n + 1]>> ELSE Digits(n \div 10) \o <<DigitChars[(n % 10) + 1]>>

\* c.isalnum(), for the characters filenames are made of here
IsAlnum(c) == c = "u" \/ \E i \in 1..Len(DigitChars) : DigitChars[i] = c

\* ---- pathlib (posix)
\* the components of a path: empty components and '.' are dropped
PathParts(s) == SelectSeq(Split(s, "/"), LAMBDA c : c # <<>> /\ c # <<".">>)

\* Path(s).name
PathName(s) == IF PathParts(s) = <<>> THEN <<>> ELSE PathParts(s)[Len(PathParts(s))]

\* Path(name).suffix: from the last dot, unless it is the first or the last character
Suffix(name) ==
  LET dots == {i \in 1..Len(name) : name[i] = "."}
  IN IF dots = {} THEN <<>>
     ELSE LET i == CHOOSE i \in dots : \A j \in dots : j <= i
          IN IF i > 1 /\ i < Len(name) THEN SubSeq(name, i, Len(name)) ELSE <<>>

\* Path(name).stem
Stem(name) == SubSeq(name, 1, Len(name) - Len(Suffix(name)))

\* the upload root, resolved: /u
UploadDir == <<<<"u">>>>

\* self.upload_dir / name: an absolute right operand replaces the left one
JoinPath(dir, s) == IF StartsWith(s, <<"/">>) THEN PathParts(s) ELSE dir \o PathParts(s)

\* Path.resolve() on a host without symlinks: '..' steps up
RECURSIVE Resolve(_, _)
Resolve(parts, acc) ==
  IF parts = <<>> THEN acc
  ELSE IF Head(parts) = <<".", ".">>
       THEN Resolve(Tail(parts), SubSeq(acc, 1, Len(acc) - 1))
       ELSE Resolve(Tail(parts), Append(acc, Head(parts)))

RECURSIVE JoinParts(_)
JoinParts(parts) ==
  IF parts = <<>> THEN <<>> ELSE <<"/">> \o Head(parts) \o JoinParts(Tail(parts))

\* str(path) of a resolved absolute path
PathString(parts) == IF parts = <<>> THEN <<"/">> ELSE JoinParts(parts)

IsPrefix(a, b) == Len(a) <= Len(b) /\ SubSeq(b, 1, Len(a)) = a

\* ---- the server host's file system
\* links: the paths that are symbolic links to a path outside the upload root at which
\* nothing exists
EmptyDisk == [files |-> {}, dirs |-> {}, links |-> {}]

\* an upload root in which someone left such a link, <root>/u
LinkedDisk == [EmptyDisk EXCEPT !.links = {UploadDir \o <<<<"u">>>>}]

\* Path.resolve() leaves the upload root through a link
ThroughLink(d, path) == \E q \in d.links : IsPrefix(q, path)

FilePaths(d) == {f.path : f \in d.files}

IsFile(d, path) == path \in FilePaths(d)

\* a directory: the upload root and the directories above it, one made by mkdir, or one
\* holding a file
IsDir(d, path) ==
  \/ IsPrefix(path, UploadDir)
  \/ \E q \in d.dirs : IsPrefix(path, q)
  \/ \E q \in FilePaths(d) : IsPrefix(path, q) /\ path # q

\* Path.exists()
Exists(d, path) == IsFile(d, path) \/ IsDir(d, path)

FileData(d, path) ==
  IF IsFile(d, path) THEN (CHOOSE f \in d.files : f.path = path).data ELSE <<>>

\* open(path, 'ab') can be written: the path is no directory and its parent is one
CanAppend(d, path) ==
  /\ path # <<>>
  /\ ~IsDir(d, path)
  /\ IsDir(d, SubSeq(path, 1, Len(path) - 1))

OverwriteFile(d, path, body) ==
  [d EXCEPT !.files = {f \in @ : f.path # path} \cup {[path |-> path, data |-> <<body>>]}]

\* with open(output_file, 'ab') as f: f.write(chunk_data)
AppendFile(d, path, body) ==
  [d EXCEPT !.files = {f \in @ : f.path # path}
                        \cup {[path |-> path, data |-> Append(FileData(d, path), body)]}]

\* output_file.parent.mkdir(parents=True, exist_ok=True) succeeds: no file is in the way
CanMkdir(d, path) == \A i \in 1..Len(path) : ~IsFile(d, SubSeq(path, 1, i))

Mkdir(d, path) == [d EXCEPT !.dirs = @ \cup {path}]

\* ---- IndexedCPServer
PathModes == {"sanitize", "ignore", "allow-paths"}

MAX_FILENAME_LENGTH == 255

\* secrets.token_hex(4)
RandomHex ==
  {<<"0", "0", "0", "0", "0", "0", "0", "0">>, <<"f", "f", "f", "f", "f", "f", "f", "f">>}

\* int(time.time() * 1000)
Timestamp(t) == Digits(t * MsPerSecond)

\* for prefix in ['./', '.\\']: strip it if the name starts with it
StripPrefixes(name) ==
  LET s1 == IF StartsWith(name, <<".", "/">>) THEN Slice(name, 2) ELSE name
  IN IF StartsWith(s1, <<".", "\\">>) THEN Slice(s1, 2) ELSE s1

AlwaysFirstChunk(sessions, name) == FALSE

\* client_filename in self.upload_sessions
HasSession(sessions, name) == \E e \in sessions : e.client = name

SessionOf(sessions, name) == (CHOOSE e \in sessions : e.client = name).actual

\* self.upload_sessions[client_filename] = actual_filename
SetSession(sessions, name, actual) ==
  {e \in sessions : e.client # name} \cup {[client |-> name, actual |-> actual]}

\* the outcome of _determine_output_path: the status it leads to (200: the request goes
\* on to its body), the filename, the file to open, the session map and the disk after it
Resolved(status, actual, path, sessions, d) ==
  [status |-> status, actual |-> actual, path |-> path, sessions |-> sessions, disk |-> d]

\* str(resolved_output).startswith(str(resolved_upload_dir))
InsideCheck(d, path) ==
  /\ ~ThroughLink(d, Resolve(path, <<>>))
  /\ StartsWith(PathString(Resolve(path, <<>>)), PathString(UploadDir))

\* _handle_ignore_mode
HandleIgnoreMode(name, sessions, d, t, random_hex) ==
  IF HasSession(sessions, name)
  THEN Resolved(200, SessionOf(sessions, name),
                UploadDir \o <<SessionOf(sessions, name)>>, sessions, d)
  ELSE LET full_path == Replace(Replace(StripPrefixes(name), "/", "_"), "\\", "_")
           ext == Suffix(PathName(full_path))
           stem == Stem(PathName(full_path))
           safe_name == [i \in 1..Len(stem) |->
                           IF IsAlnum(stem[i]) \/ stem[i] \in {".", "_", "-"}
                           THEN stem[i] ELSE "-"]
           prefix == Timestamp(t) \o <<"_">> \o random_hex \o <<"_">>
           proposed == prefix \o safe_name \o ext
           actual == IF Len(proposed) > MAX_FILENAME_LENGTH
                     THEN prefix
                          \o SubSeq(safe_name, 1, MAX_FILENAME_LENGTH - Len(prefix) - Len(ext))
                          \o ext
                     ELSE proposed
       IN Resolved(200, actual, UploadDir \o <<actual>>, SetSession(sessions, name, actual), d)

NeverAbsolute(s) == FALSE

\* has_absolute: a leading '/', a leading '\\' pair, or a drive letter
HasAbsolute(s) ==
  \/ StartsWith(s, <<"/">>)
  \/ StartsWith(s, <<"\\", "\\">>)
  \/ (Len(s) > 1 /\ s[2] = ":")

\* _handle_allow_paths_mode
HandleAllowPathsMode(name, sessions, d) ==
  LET cleaned == StripPrefixes(name)
      actual == Replace(cleaned, "\\", "/")
      path == JoinPath(UploadDir, actual)
      parent == SubSeq(path, 1, Len(path) - 1)
  IN IF Contains(cleaned, <<".", ".">>) \/ HasAbsolute(cleaned)
     THEN Resolved(400, <<>>, <<>>, sessions, d)
     ELSE IF ~InsideCheck(d, path) THEN Resolved(403, <<>>, <<>>, sessions, d)
     ELSE IF ~CanMkdir(d, parent) THEN Resolved(500, <<>>, <<>>, sessions, d)
     ELSE Resolved(200, actual, path, sessions, Mkdir(d, parent))

\* _handle_sanitize_mode
HandleSanitizeMode(name, sessions, d, t) ==
  LET cleaned == StripPrefixes(name)
      has_path_separators == Contains(cleaned, <<"/">>) \/ Contains(cleaned, <<"\\">>)
      has_traversal == Contains(name, <<".", ".">>)
      base == PathName(name)
      taken == Exists(d, UploadDir \o <<base>>)
      actual == IF HasSession(sessions, name) THEN SessionOf(sessions, name)
                ELSE IF taken
                     THEN Stem(base) \o <<"_">> \o Timestamp(t) \o Suffix(base)
                     ELSE base
      after == IF HasSession(sessions, name) THEN sessions
               ELSE SetSession(sessions, name, actual)
      path == JoinPath(UploadDir, actual)
  IN IF has_path_separators \/ has_traversal \/ HasAbsolute(name)
     THEN Resolved(400, <<>>, <<>>, sessions, d)
     ELSE IF base = <<>> \/ base = <<".", ".">>
     THEN Resolved(400, <<>>, <<>>, sessions, d)
     ELSE IF ~InsideCheck(d, path) THEN Resolved(403, <<>>, <<>>, after, d)
     ELSE Resolved(200, actual, path, after, d)

\* _determine_output_path, with the outcomes secrets.token_hex can give
DetermineOutputPath(mode, name, sessions, d, t) ==
  IF mode = "ignore"
  THEN {HandleIgnoreMode(name, sessions, d, t, h) : h \in RandomHex}
  ELSE IF mode = "allow-paths" THEN {HandleAllowPathsMode(name, sessions, d)}
  ELSE {HandleSanitizeMode(name, sessions, d, t)}

\* ---- Authorization
Bearer == <<"B", "e", "a", "r", "e", "r", " ">>

\* the server's api_keys: 'k', and a key that itself starts with 'Bearer '
ApiKeys == {<<"k">>, Bearer \o <<"x">>}

NoHeader == [present |-> FALSE, value |-> <<>>]

Header(value) == [present |-> TRUE, value |-> value]

AcceptAnyKey(authorization) == TRUE

\* _verify_api_key returns the key (TRUE) or raises HTTPException 401 (FALSE)
VerifyApiKey(authorization) ==
  /\ authorization.present
  /\ authorization.value # <<>>
  /\ LET provided_key == IF StartsWith(authorization.value, Bearer)
                         THEN Slice(authorization.value, Len(Bearer))
                         ELSE authorization.value
     IN provided_key \in ApiKeys

\* no upload request was received yet
NoAnswer ==
  [n |-> 0, name |-> <<>>, chunkIndex |-> 0, authorization |-> NoHeader, status |-> 0,
   actual |-> <<>>, path |-> <<>>]

\* a server nobody sends a request to
ServerOff ==
  /\ path_mode = "ignore"
  /\ upload_sessions = {}
  /\ disk = EmptyDisk
  /\ requests = {}
  /\ resolution = NoAnswer
  /\ nreq = 0
  /\ clients = [names |-> "none", requests |-> 0, headers |-> "none", disk |-> "empty"]

\* ---- add_file: the read loop over the bytes of one file
ByteValues == {0, 10, 171, 255}

FileContents == UNION {[1..n -> ByteValues] : n \in 1..MaxFileSize}

ChunkSizes == 1..MaxChunkSize

HexDigits == <<"0", "1", "2", "3", "4", "5", "6", "7", "8", "9", "a", "b", "c", "d", "e", "f">>

\* bytes.hex(): two lowercase digits per byte
RECURSIVE ToHex(_)
ToHex(bytes) ==
  IF bytes = <<>> THEN <<>>
  ELSE <<HexDigits[(Head(bytes) \div 16) + 1], HexDigits[(Head(bytes) % 16) + 1]>>
         \o ToHex(Tail(bytes))

HexValue(c) == CHOOSE v \in 0..15 : HexDigits[v + 1] = c

\* bytes.fromhex()
RECURSIVE FromHex(_)
FromHex(str) ==
  IF str = <<>> THEN <<>>
  ELSE <<HexValue(str[1]) * 16 + HexValue(str[2])>> \o FromHex(SubSeq(str, 3, Len(str)))

ReadOneByte(bytes, pos, n) == SubSeq(bytes, pos + 1, Min(pos + 1, Len(bytes)))

\* f.read(n) at position pos of a file opened 'rb'
Read(bytes, pos, n) == SubSeq(bytes, pos + 1, Min(pos + n, Len(bytes)))

\* chunk_record, with its data in hex
ChunkRecord(f, i, chunk_data, t) ==
  [id |-> ChunkKey(f, i), fileName |-> f, chunkIndex |-> i, data |-> ToHex(chunk_data),
   retryCount |-> 0, lastAttempt |-> None, nextRetry |-> t * MsPerSecond, errors |-> <<>>]

NoAddFile ==
  /\ fileBytes = <<>>
  /\ chunk_size = 1
  /\ filePos = 0
  /\ chunk_index = 0
  /\ chunkRows = <<>>
  /\ addReturn = None

\* ---- an upload pass: the locals of upload_buffered_files / _process_background_upload
\* and of the _upload_file_chunks call they are in
NoChunk == NewChunk("", 0, 0)

\* no response yet; a response without actualFilename (or none that json.loads accepts)
NoReply == [status |-> 0, actualFilename |-> <<>>, body |-> "none"]

NoName == <<>>

\* on_upload_complete was not called
NoReport == [calls |-> 0, succeeded |-> 0, failed |-> 0, total |-> 0]

IdlePass ==
  [pc |-> "idle", kind |-> "none", records |-> <<>>, groups |-> <<>>, ngroups |-> 0,
   gi |-> 0, processed |-> 0, chunks |-> <<>>, ci |-> 0, now |-> 0, errs |-> 0,
   sent |-> <<>>, pend |-> NoChunk, tx |-> "none", results |-> {}, failed |-> 0,
   raised |-> FALSE, loaded |-> {}, attempted |-> {}, acked |-> {},
   reply |-> NoReply, server_filename |-> NoName, names |-> {}, report |-> NoReport,
   replies |-> <<>>]

\* storage.load_all returned rows
LoadedPass(kind, rows) ==
  [IdlePass EXCEPT !.pc = "loaded", !.kind = kind, !.records = rows,
                   !.loaded = StorageKeys(rows)]

\* _process_background_upload's filter for records ready for retry
Retryable(recs, now) ==
  SelectSeq(recs, LAMBDA r : ~NotReady(r, now) /\ ~MaxRetriesReached(r))

\* after load_all returned: filter (background pass only) and group by fileName
Resume(s, t) ==
  IF s.pc # "loaded" THEN s
  ELSE LET recs == IF s.kind = "bg" THEN Retryable(s.records, t * MsPerSecond) ELSE s.records
           groups == GroupByFileName(recs, <<>>)
       IN [s EXCEPT !.pc = "run", !.records = <<>>, !.groups = groups,
                    !.ngroups = Len(groups), !.gi = 1, !.ci = 0]

NeverFailed(errs) == FALSE

AlwaysFailed(errs) == TRUE

\* if errors: raise RuntimeError
GroupFailed(errs) == errs > 0

\* what a pass forgets when it ends
EndPass(s, raised) ==
  [s EXCEPT !.pc = "done", !.raised = raised, !.groups = <<>>, !.chunks = <<>>, !.ci = 0,
            !.errs = 0, !.sent = <<>>, !.pend = NoChunk, !.tx = "none",
            !.reply = NoReply, !.server_filename = NoName]

\* the filepath string given to add_file for file f, which is also its X-File-Name
FilePath(f) == <<"d", "/", f>>

\* server_filename or Path(file_name).name
ServerFilename(s) ==
  IF s.server_filename # NoName THEN s.server_filename
  ELSE PathName(FilePath(s.groups[s.gi].fileName))

\* an exception leaves _upload_file_chunks: upload_buffered_files lets it through,
\* _process_background_upload counts the file as failed and goes on
AbortGroup(s) ==
  IF s.kind = "manual" THEN EndPass(s, TRUE)
  ELSE [s EXCEPT !.pc = "run", !.failed = @ + 1, !.gi = @ + 1, !.ci = 0]

\* one decision of the pass at state s: the start of a group samples now and sorts, a
\* chunk not due or at max_retries is skipped, the end of a group raises or records the
\* file; the pass stops at its next transport call (pc "run") or at its end (pc "done")
RECURSIVE Scan(_, _)
ScanStep(s, t) ==
  IF s.pc = "done" THEN s
  ELSE IF s.gi > Len(s.groups) THEN EndPass(s, FALSE)
  ELSE IF s.ci = 0 THEN
    Scan([s EXCEPT !.chunks = SortChunks(s.groups[s.gi].chunks), !.ci = 1,
                   !.now = t * MsPerSecond, !.errs = 0, !.sent = <<>>,
                   !.processed = @ + 1, !.server_filename = NoName], t)
  ELSE IF s.ci > Len(s.chunks) THEN
    IF GroupFailed(s.errs) THEN Scan(AbortGroup(s), t)
    ELSE Scan([s EXCEPT !.results = @ \cup {s.groups[s.gi].fileName},
                        !.names = {n \in @ : n[1] # s.groups[s.gi].fileName}
                                    \cup {<<s.groups[s.gi].fileName, ServerFilename(s)>>},
                        !.gi = @ + 1, !.ci = 0], t)
  ELSE LET c == s.chunks[s.ci]
       IN IF NotReady(c, s.now) \/ MaxRetriesReached(c)
          THEN Scan([s EXCEPT !.ci = @ + 1], t)
          ELSE s

\* the pass from state s0 on, without suspension (s0 is evaluated once)
Scan(s0, t) == CHOOSE r \in {ScanStep(s, t) : s \in {s0}} : TRUE

\* ---- the environment's choices
\* the Authorization header of _upload_chunk is refused by the server
Unauthorized == ~VerifyApiKey(Header(Bearer \o cfg.api_key))

\* the server cannot be reached during the outage, and answers after it
TransportOutcomes ==
  IF Unauthorized THEN {"fail"}
  ELSE IF clock < cfg.outage THEN {"ok", "fail"} ELSE {"ok"}

\* the names a server's JSON acknowledgment may carry as actualFilename
ServerNames == {<<"s">>, <<"t">>}

\* what urlopen gave: 200 with a body that names the file or does not, 401, or no answer
\* the payloads of a 200 response: a JSON object, text that is not JSON, bytes that are
\* not UTF-8, and a JSON value that is not an object
Bodies ==
  IF cfg.server_url = "json" THEN {"object"}
  ELSE IF cfg.server_url = "legacy" THEN {"text", "bytes", "value"}
  ELSE {"text"}

Replies(outcome) ==
  IF outcome = "ok"
  THEN {[status |-> 200, actualFilename |-> n, body |-> b] :
          n \in IF cfg.server_url = "json" THEN ServerNames \cup {NoName} ELSE {NoName},
          b \in Bodies}
  ELSE IF Unauthorized THEN {[status |-> 401, actualFilename |-> NoName, body |-> "none"]}
  ELSE {NoReply}

\* reading the payload raises nothing _upload_chunk lets through: json.loads gave an
\* object, or raised JSONDecodeError; decode raising UnicodeDecodeError and result.get
\* raising AttributeError are not caught
Parses(reply) == reply.body \notin {"bytes", "value"}

CallbackRaises == IF cfg.progress_raises /\ clock < MaxTime THEN {FALSE, TRUE} ELSE {FALSE}

\* if succeeded > 0 and self.on_upload_complete: the callback returns or raises
CompleteRaises(s) ==
  IF s.results # {} /\ cfg.complete_raises /\ clock < MaxTime THEN {FALSE, TRUE} ELSE {FALSE}

\* the loop's except Exception: if self.on_upload_error: the callback returns or raises
ErrorRaises == IF cfg.error_raises /\ clock < MaxTime THEN {FALSE, TRUE} ELSE {FALSE}

DeleteAlways(outcome) == TRUE

\* _upload_chunk returned (try) or raised (except)
TransportSucceeded(outcome) == outcome = "ok"

\* server.handle_upload: append the body to the file of this X-File-Name
HandleUpload(files, fileName, body) == [files EXCEPT ![fileName] = Append(@, body)]

\* server_url=None, api_key=None
NoUrl == "none"

NoKey == <<>>

\* the constructor's retry settings; on_upload_progress is a callback that may raise;
\* with them the server the client is pointed at, and how long it cannot be reached
Configs ==
  [max_retries : {SmallRetries},
   max_retry_delay : {SmallDelayCap, DefaultMaxRetryDelay},
   progress_raises : {TRUE}, complete_raises : {TRUE}, error_raises : {TRUE},
   server_url : {"plain"}, api_key : {<<"k">>}, outage : {MaxTime}]

\* the defaults: unbounded retries, no callbacks
DefaultConfig ==
  [max_retries |-> Infinity, max_retry_delay |-> DefaultMaxRetryDelay,
   progress_raises |-> FALSE, complete_raises |-> FALSE, error_raises |-> FALSE,
   server_url |-> "plain", api_key |-> <<"k">>, outage |-> MaxTime]

\* the defaults but for a backoff capped at one second, and a server that may stay
\* unreachable for a long time
RetryConfig == [DefaultConfig EXCEPT !.max_retry_delay = SmallDelayCap, !.outage = MaxOutage]

\* a client with small retry settings and no callbacks
QuietConfig ==
  [DefaultConfig EXCEPT !.max_retries = SmallRetries, !.max_retry_delay = SmallDelayCap]

\* clients built without a server URL, without an API key, with a key the server does
\* not know, and pointed at a server whose acknowledgments may name the file
ManualConfigs ==
  Configs \cup {[QuietConfig EXCEPT !.server_url = NoUrl],
                [QuietConfig EXCEPT !.api_key = NoKey],
                [QuietConfig EXCEPT !.api_key = <<"x">>],
                [QuietConfig EXCEPT !.server_url = "json"],
                [QuietConfig EXCEPT !.server_url = "legacy"]}

ValueErrorsIgnored(c) == FALSE

\* upload_buffered_files: if not target_url / if not self.api_key: raise ValueError
RaisesValueError(c) == c.server_url = NoUrl \/ c.api_key = NoKey

ClientInit(configs) ==
  /\ clock = 0
  /\ cfg \in configs
  /\ storage = <<>>
  /\ uploads = [f \in Files |-> <<>>]
  /\ pass = [p \in Procs |-> IdlePass]
  /\ callerPc = "idle"
  /\ addFile = ""
  /\ addIndex = 0
  /\ background_upload_task = None
  /\ background_upload_running = FALSE
  /\ taskPc = [t \in Tasks |-> "none"]
  /\ cancelRequested = [t \in Tasks |-> FALSE]
  /\ crashes = 0
  /\ startIgnored = FALSE
  /\ addCount = [f \in Files |-> 0]
  /\ delivered = {}

InitWith(configs) == ClientInit(configs) /\ ServerOff /\ NoAddFile

Init == InitWith(Configs)

\* the coroutine p is inside a pass and free to run
Running(p) ==
  IF p = Caller THEN callerPc = "upload"
  ELSE taskPc[p] = "pass" /\ ~cancelRequested[p]

\* where the loop task goes after a pass: to its sleep; to the top of the loop when
\* on_upload_complete raised and the loop's except handled it; out of the coroutine when
\* on_upload_error raised inside that except
AfterPass(completeRaised, errorRaised) ==
  IF ~completeRaised THEN "sleep" ELSE IF errorRaised THEN "done" ELSE "loop"

\* if succeeded > 0 and self.on_upload_complete
Reports(s) == s.results # {} /\ cfg.complete_raises

\* the argument of on_upload_complete
Report(s) ==
  [calls |-> 1, succeeded |-> Cardinality(s.results), failed |-> s.failed,
   total |-> Cardinality(s.results) + s.failed]

\* a background pass that returned: what it counted and what it told on_upload_complete
Ended(s) ==
  [IdlePass EXCEPT !.processed = s.processed, !.results = s.results, !.failed = s.failed,
                   !.report = IF Reports(s) THEN Report(s) ELSE NoReport]

NoFinally(running) == running

\* finally: self.background_upload_running = False
AfterFinally(running) == FALSE

\* the end of a pass: upload_buffered_files keeps its result for the caller;
\* _process_background_upload reports to on_upload_complete and its finally clears the flag
Finish(p, s) ==
  IF p = Caller
  THEN /\ pass' = [pass EXCEPT ![p] = s]
       /\ UNCHANGED <<taskPc, background_upload_running>>
  ELSE /\ pass' = [pass EXCEPT ![p] = Ended(s)]
       /\ \E completeRaised \in CompleteRaises(s) : \E errorRaised \in ErrorRaises :
            taskPc' = [taskPc EXCEPT ![p] = AfterPass(completeRaised, errorRaised)]
       /\ background_upload_running' = AfterFinally(background_upload_running)

Continue(p, s) ==
  /\ pass' = [pass EXCEPT ![p] = s]
  /\ UNCHANGED <<taskPc, background_upload_running>>

\* _upload_file_chunks up to and including one _upload_chunk call
Attempt(p) ==
  /\ Running(p)
  /\ pass[p].pc \in {"loaded", "run"}
  /\ \E s \in {Scan(Resume(pass[p], clock), clock)} :
        IF s.pc = "done"
        THEN /\ Finish(p, s)
             /\ UNCHANGED uploads
        ELSE LET c == s.chunks[s.ci]
                 c1 == [c EXCEPT !.lastAttempt = s.now, !.retryCount = @ + 1]
             IN \E outcome \in TransportOutcomes : \E reply \in Replies(outcome) :
                  LET ok == TransportSucceeded(outcome) /\ Parses(reply)
                      s0 == [s EXCEPT !.sent = Append(@, c.chunkIndex),
                                      !.tx = outcome,
                                      !.reply = reply,
                                      !.attempted = @ \cup {c.id}]
                      s1 == IF ok
                            THEN [s0 EXCEPT !.pend = c1, !.pc = "delete",
                                            !.replies =
                                               Append(@, <<c.fileName, reply.actualFilename>>),
                                            !.server_filename =
                                               IF @ = NoName THEN reply.actualFilename ELSE @]
                            ELSE IF Overflows(c1.retryCount) THEN AbortGroup(s0)
                            ELSE [s0 EXCEPT !.pend = Failed(c1, s.now), !.pc = "save"]
                  IN /\ uploads' = IF outcome = "ok"
                                   THEN HandleUpload(uploads, c.fileName, c.data)
                                   ELSE uploads
                     /\ Continue(p, s1)
  /\ UNCHANGED <<serverVars, chunkVars, crashes, startIgnored, clock, cfg, storage, callerPc,
                 addFile, addIndex, background_upload_task, cancelRequested, addCount,
                 delivered>>

\* storage.delete after a successful transport call, then on_upload_progress
Delete(p) ==
  /\ Running(p)
  /\ pass[p].pc = "delete"
  /\ storage' = StorageDelete(storage, pass[p].pend.id)
  /\ delivered' = delivered \cup {pass[p].pend.id}
  /\ \E raises \in CallbackRaises :
       LET s == pass[p]
       IN IF raises
          THEN pass' = [pass EXCEPT ![p] = IF Overflows(s.pend.retryCount)
                                           THEN AbortGroup([s EXCEPT !.pend = NoChunk])
                                           ELSE [s EXCEPT !.pc = "save",
                                                          !.pend = Failed(s.pend, s.now)]]
          ELSE pass' = [pass EXCEPT ![p] = [s EXCEPT !.pc = "run", !.ci = @ + 1,
                                                     !.acked = @ \cup {s.pend.id},
                                                     !.pend = NoChunk]]
  /\ UNCHANGED <<serverVars, chunkVars, crashes, startIgnored, clock, cfg, uploads, callerPc,
                 addFile, addIndex, background_upload_task, background_upload_running,
                 taskPc, cancelRequested, addCount>>

\* storage.save of the except branch, then on_upload_progress
Save(p) ==
  /\ Running(p)
  /\ pass[p].pc = "save"
  /\ storage' = StorageSave(storage, pass[p].pend)
  /\ \E raises \in CallbackRaises :
       LET s == [pass[p] EXCEPT !.errs = @ + 1, !.pend = NoChunk]
       IN IF raises
          THEN pass' = [pass EXCEPT ![p] = AbortGroup(s)]
          ELSE pass' = [pass EXCEPT ![p] = [s EXCEPT !.pc = "run", !.ci = @ + 1]]
  /\ UNCHANGED <<serverVars, chunkVars, crashes, startIgnored, clock, cfg, uploads, callerPc,
                 addFile, addIndex, background_upload_task, background_upload_running,
                 taskPc, cancelRequested, addCount, delivered>>

Adds == addCount["a"] + addCount["b"]

\* ---- the caller coroutine
\* add_file, up to its first storage.save
AddFileBegin(f) ==
  /\ callerPc = "idle"
  /\ Adds < MaxAdds
  /\ callerPc' = "adding"
  /\ addFile' = f
  /\ addIndex' = 0
  /\ addCount' = [addCount EXCEPT ![f] = @ + 1]
  /\ UNCHANGED <<serverVars, chunkVars, crashes, startIgnored, clock, cfg, storage, uploads, pass,
                 background_upload_task, background_upload_running, taskPc,
                 cancelRequested, delivered>>

\* add_file: one turn of its read loop, storage.save of the next chunk
AddFileChunk ==
  /\ callerPc = "adding"
  /\ storage' = StorageSave(storage, NewChunk(addFile, addIndex, clock))
  /\ delivered' = delivered \ {ChunkKey(addFile, addIndex)}
  /\ IF addIndex + 1 < ChunkCount(addFile)
     THEN /\ addIndex' = addIndex + 1
          /\ UNCHANGED <<callerPc, addFile>>
     ELSE /\ addIndex' = 0
          /\ addFile' = ""
          /\ callerPc' = "idle"
  /\ UNCHANGED <<serverVars, chunkVars, crashes, startIgnored, clock, cfg, uploads, pass,
                 background_upload_task, background_upload_running, taskPc,
                 cancelRequested, addCount>>

\* upload_buffered_files: its configuration checks, then up to storage.load_all
UploadBufferedFiles ==
  /\ callerPc = "idle"
  /\ callerPc' = "upload"
  /\ pass' = [pass EXCEPT ![Caller] = IF RaisesValueError(cfg)
                                      THEN EndPass([IdlePass EXCEPT !.kind = "manual"], TRUE)
                                      ELSE LoadedPass("manual", storage)]
  /\ UNCHANGED <<serverVars, chunkVars, crashes, startIgnored, clock, cfg, storage, uploads, addFile,
                 addIndex, background_upload_task, background_upload_running, taskPc,
                 cancelRequested, addCount, delivered>>

\* upload_buffered_files returns its map or raises
UploadReturn ==
  /\ callerPc = "upload"
  /\ pass[Caller].pc = "done"
  /\ callerPc' = "idle"
  /\ pass' = [pass EXCEPT ![Caller] = IdlePass]
  /\ UNCHANGED <<serverVars, chunkVars, crashes, startIgnored, clock, cfg, storage, uploads, addFile,
                 addIndex, background_upload_task, background_upload_running, taskPc,
                 cancelRequested, addCount, delivered>>

NeverRunning(task) == FALSE

\* self.background_upload_task and not self.background_upload_task.done()
AlreadyRunning(task) == task # None /\ taskPc[task] # "done"

FreeTasks == {t \in Tasks : taskPc[t] = "none"}

\* start_upload_background
StartUploadBackground ==
  /\ callerPc = "idle"
  /\ startIgnored' = AlreadyRunning(background_upload_task)
  /\ IF AlreadyRunning(background_upload_task)
     THEN UNCHANGED <<background_upload_task, taskPc, cancelRequested>>
     ELSE /\ FreeTasks # {}
          /\ LET t == CHOOSE t \in FreeTasks : \A u \in FreeTasks : t <= u
             IN /\ background_upload_task' = t
                /\ taskPc' = [taskPc EXCEPT ![t] = "loop"]
                /\ cancelRequested' = [cancelRequested EXCEPT ![t] = FALSE]
  /\ UNCHANGED <<serverVars, chunkVars, crashes, clock, cfg, storage, uploads, pass, callerPc,
                 addFile, addIndex, background_upload_running, addCount, delivered>>

\* stop_upload_background: cancel the task and await it
StopUploadBackground ==
  /\ callerPc = "idle"
  /\ startIgnored' = FALSE
  /\ IF AlreadyRunning(background_upload_task)
     THEN /\ cancelRequested' = [cancelRequested EXCEPT ![background_upload_task] = TRUE]
          /\ callerPc' = "stopping"
     ELSE UNCHANGED <<cancelRequested, callerPc>>
  /\ UNCHANGED <<serverVars, chunkVars, crashes, clock, cfg, storage, uploads, pass, addFile,
                 addIndex, background_upload_task, background_upload_running, taskPc,
                 addCount, delivered>>

\* stop_upload_background: the awaited task ended, the reference is dropped
StopReturn ==
  /\ callerPc = "stopping"
  /\ taskPc[background_upload_task] = "done"
  /\ taskPc' = [taskPc EXCEPT ![background_upload_task] = "none"]
  /\ background_upload_task' = None
  /\ callerPc' = "idle"
  /\ UNCHANGED <<serverVars, chunkVars, crashes, startIgnored, clock, cfg, storage, uploads, pass,
                 addFile, addIndex, background_upload_running, cancelRequested, addCount,
                 delivered>>

\* ---- a background loop task
FlagLeftClear == FALSE

\* self.background_upload_running = True
RunningFlag == TRUE

\* _background_upload_loop: one turn from the top of the loop (or from the end of the
\* sleep) to storage.load_all of _process_background_upload
BackgroundLoop(t) ==
  /\ taskPc[t] \in {"loop", "sleep"}
  /\ ~cancelRequested[t]
  /\ IF background_upload_running
     THEN /\ taskPc' = [taskPc EXCEPT ![t] = "sleep"]
          /\ UNCHANGED <<pass, background_upload_running>>
     ELSE IF cfg.server_url = NoUrl
     THEN /\ \E errorRaised \in ErrorRaises :
               taskPc' = [taskPc EXCEPT ![t] = AfterPass(TRUE, errorRaised)]
          /\ UNCHANGED <<pass, background_upload_running>>
     ELSE /\ background_upload_running' = RunningFlag
          /\ taskPc' = [taskPc EXCEPT ![t] = "pass"]
          /\ pass' = [pass EXCEPT ![t] = LoadedPass("bg", storage)]
  /\ UNCHANGED <<serverVars, chunkVars, crashes, startIgnored, clock, cfg, storage, uploads,
                 callerPc, addFile, addIndex, background_upload_task, cancelRequested,
                 addCount, delivered>>

\* CancelledError at the task's suspension point: the finally of an in-flight pass clears
\* the flag, the loop breaks; a storage call already handed to its thread still runs
Cancelled(t) ==
  /\ cancelRequested[t]
  /\ taskPc[t] \in {"loop", "pass", "sleep"}
  /\ taskPc' = [taskPc EXCEPT ![t] = "done"]
  /\ cancelRequested' = [cancelRequested EXCEPT ![t] = FALSE]
  /\ pass' = [pass EXCEPT ![t] = IdlePass]
  /\ background_upload_running' =
       IF taskPc[t] = "pass" THEN AfterFinally(background_upload_running)
       ELSE background_upload_running
  /\ storage' = IF pass[t].pc = "delete" THEN StorageDelete(storage, pass[t].pend.id)
                ELSE IF pass[t].pc = "save" THEN StorageSave(storage, pass[t].pend)
                ELSE storage
  /\ delivered' = IF pass[t].pc = "delete" THEN delivered \cup {pass[t].pend.id}
                  ELSE delivered
  /\ UNCHANGED <<serverVars, chunkVars, crashes, startIgnored, clock, cfg, uploads, callerPc,
                 addFile, addIndex, background_upload_task, addCount>>

\* ---- the environment
Pending == \E i \in 1..Len(storage) : storage[i].nextRetry > clock * MsPerSecond

Tick ==
  /\ clock < MaxTime \/ Pending
  /\ clock' = clock + 1
  /\ UNCHANGED <<serverVars, chunkVars, crashes, startIgnored, cfg, storage, uploads, pass, callerPc,
                 addFile, addIndex, background_upload_task, background_upload_running,
                 taskPc, cancelRequested, addCount, delivered>>

\* the client process dies and is started again: only the chunk store survives
Crash ==
  /\ crashes < MaxCrashes
  /\ crashes' = crashes + 1
  /\ pass' = [p \in Procs |-> IdlePass]
  /\ callerPc' = "idle"
  /\ addFile' = ""
  /\ addIndex' = 0
  /\ background_upload_task' = None
  /\ background_upload_running' = FALSE
  /\ taskPc' = [t \in Tasks |-> "none"]
  /\ cancelRequested' = [t \in Tasks |-> FALSE]
  /\ startIgnored' = FALSE
  /\ UNCHANGED <<serverVars, chunkVars, clock, cfg, storage, uploads, addCount, delivered>>

\* a caller that uploads by hand only while no background loop exists
SchedulerOff == background_upload_task = None

NextSerial ==
  \/ \E f \in Files : AddFileBegin(f)
  \/ AddFileChunk
  \/ (SchedulerOff /\ UploadBufferedFiles)
  \/ UploadReturn
  \/ StartUploadBackground
  \/ StopUploadBackground
  \/ StopReturn
  \/ \E t \in Tasks : BackgroundLoop(t)
  \/ \E t \in Tasks : Cancelled(t)
  \/ \E p \in Procs : Attempt(p)
  \/ \E p \in Procs : Delete(p)
  \/ \E p \in Procs : Save(p)
  \/ Tick

\* manual and background passes, one at a time
Spec == Init /\ [][NextSerial]_vars

\* a caller that never starts the background loop, and a client that may die
NextManual ==
  \/ \E f \in Files : AddFileBegin(f)
  \/ AddFileChunk
  \/ UploadBufferedFiles
  \/ UploadReturn
  \/ Attempt(Caller)
  \/ Delete(Caller)
  \/ Save(Caller)
  \/ Tick
  \/ Crash

SpecManual == InitWith(ManualConfigs) /\ [][NextManual]_vars

\* one file of one chunk, buffered once and uploaded by hand as soon as it is due, while
\* the server stays unreachable
RetryNext ==
  \/ (Adds = 0 /\ AddFileBegin("b"))
  \/ AddFileChunk
  \/ UploadBufferedFiles
  \/ UploadReturn
  \/ Attempt(Caller)
  \/ Delete(Caller)
  \/ Save(Caller)
  \/ Tick

RetrySpec == InitWith({RetryConfig}) /\ [][RetryNext]_vars

\* a client built with max_retry_delay=0: every retry is due at once
ZeroDelayConfig == [RetryConfig EXCEPT !.max_retry_delay = 0]

\* the same caller, with a client whose backoff is capped at one second or at zero
BackoffSpec == InitWith({RetryConfig, ZeroDelayConfig}) /\ [][RetryNext]_vars

\* some loop task is inside _process_background_upload
PassInFlight == \E t \in Tasks : taskPc[t] = "pass"

\* a caller that buffers one file of one chunk, starts the scheduler and calls
\* upload_buffered_files while a pass of the scheduler is in flight
OverlapNext ==
  \/ (Adds = 0 /\ AddFileBegin("b"))
  \/ AddFileChunk
  \/ StartUploadBackground
  \/ (PassInFlight /\ UploadBufferedFiles)
  \/ UploadReturn
  \/ \E t \in Tasks : BackgroundLoop(t)
  \/ \E p \in Procs : Attempt(p)
  \/ \E p \in Procs : Delete(p)
  \/ \E p \in Procs : Save(p)
  \/ Tick

OverlapSpec == InitWith({QuietConfig}) /\ [][OverlapNext]_vars

\* a client built with the defaults (max_retries unbounded) whose caller buffers files and
\* starts the scheduler, and never stops it
LiveInit == InitWith({DefaultConfig})

LiveNext ==
  \/ \E f \in Files : AddFileBegin(f)
  \/ AddFileChunk
  \/ StartUploadBackground
  \/ \E t \in Tasks : BackgroundLoop(t)
  \/ \E t \in Tasks : Attempt(t)
  \/ \E t \in Tasks : Delete(t)
  \/ \E t \in Tasks : Save(t)
  \/ Tick

\* one turn of a loop task
TaskStep == \E t \in Tasks : BackgroundLoop(t) \/ Attempt(t) \/ Delete(t) \/ Save(t)

\* the event loop resumes a loop task that is ready (its storage call or its sleep has
\* returned), and time passes
LiveSpec == LiveInit /\ [][LiveNext]_vars /\ WF_vars(TaskStep) /\ WF_vars(Tick)

\* urllib.request.urlopen is called without a timeout on the event loop's thread: until
\* it returns, no coroutine of the client runs
LoopBlocked == \E p \in Procs : pass[p].pc = "blocked"

\* _upload_chunk reaches a server that accepts the request and never answers
TransportHangs(p) ==
  /\ Running(p)
  /\ pass[p].pc \in {"loaded", "run"}
  /\ \E s \in {Scan(Resume(pass[p], clock), clock)} :
       /\ s.pc # "done"
       /\ pass' = [pass EXCEPT ![p] = [s EXCEPT !.pc = "blocked", !.tx = "hang",
                                                 !.sent = Append(@, s.chunks[s.ci].chunkIndex),
                                                 !.attempted = @ \cup {s.chunks[s.ci].id},
                                                 !.pend = s.chunks[s.ci]]]
  /\ UNCHANGED <<serverVars, chunkVars, crashes, startIgnored, clock, cfg, storage, uploads,
                 callerPc, addFile, addIndex, background_upload_task,
                 background_upload_running, taskPc, cancelRequested, addCount, delivered>>

\* the caller asks the running scheduler to stop
StopRequest == AlreadyRunning(background_upload_task) /\ StopUploadBackground

\* a client whose caller buffers files, starts and stops the scheduler; a coroutine runs
\* only while the event loop's thread is free
NextStop ==
  \/ ~LoopBlocked /\ \E f \in Files : AddFileBegin(f)
  \/ ~LoopBlocked /\ AddFileChunk
  \/ ~LoopBlocked /\ StartUploadBackground
  \/ ~LoopBlocked /\ StopUploadBackground
  \/ ~LoopBlocked /\ StopReturn
  \/ ~LoopBlocked /\ \E t \in Tasks : BackgroundLoop(t)
  \/ ~LoopBlocked /\ \E t \in Tasks : Cancelled(t)
  \/ ~LoopBlocked /\ \E t \in Tasks : Attempt(t)
  \/ ~LoopBlocked /\ \E t \in Tasks : Delete(t)
  \/ ~LoopBlocked /\ \E t \in Tasks : Save(t)
  \/ ~LoopBlocked /\ \E t \in Tasks : TransportHangs(t)
  \/ Tick

\* the event loop resumes every ready coroutine unless its thread is blocked; the caller
\* keeps asking for a stop while the scheduler runs
StopSpec ==
  /\ LiveInit
  /\ [][NextStop]_vars
  /\ WF_vars(~LoopBlocked /\ TaskStep)
  /\ WF_vars(~LoopBlocked /\ \E t \in Tasks : Cancelled(t))
  /\ WF_vars(~LoopBlocked /\ AddFileChunk)
  /\ WF_vars(~LoopBlocked /\ StopRequest)
  /\ WF_vars(~LoopBlocked /\ StopReturn)
  /\ WF_vars(Tick)

\* ---- the upload endpoint
\* the Authorization headers clients send
AuthHeaders ==
  {NoHeader, Header(<<>>), Header(Bearer), Header(<<"k">>), Header(<<"x">>),
   Header(Bearer \o <<"k">>), Header(Bearer \o <<"x">>), Header(Bearer \o Bearer \o <<"x">>),
   Header(<<"b", "e", "a", "r", "e", "r", " ", "k">>)}

\* the characters of the X-File-Name values clients send
Alphabet == {"u", ".", "/", "\\", ":"}

AllNames == UNION {[1..n -> Alphabet] : n \in 0..MaxNameLen}

\* filenames of clients that upload in several chunks and more than once
SessionNames == {<<"u">>, <<".", "/", "u">>, <<"u", "/", "u">>}

ChunkIndexes == {0, 1}

\* the X-File-Name values and the Authorization headers of the clients
ClientNames == IF clients.names = "any" THEN AllNames ELSE SessionNames

ClientHeaders ==
  IF clients.headers = "any" THEN AuthHeaders
  ELSE {Header(Bearer \o <<"k">>), Header(Bearer \o <<"x">>)}

Answer(n, name, chunkIndex, authorization, status, actual, path) ==
  [n |-> n, name |-> name, chunkIndex |-> chunkIndex, authorization |-> authorization,
   status |-> status, actual |-> actual, path |-> path]

\* POST /upload: _verify_api_key, then handle_upload up to await request.body()
UploadRequest(name, chunkIndex, authorization) ==
  /\ nreq' = nreq + 1
  /\ IF ~VerifyApiKey(authorization)
     THEN /\ resolution' = Answer(nreq + 1, name, chunkIndex, authorization, 401, <<>>, <<>>)
          /\ UNCHANGED <<upload_sessions, disk, requests>>
     ELSE \E r \in DetermineOutputPath(path_mode, name, upload_sessions, disk, clock) :
            /\ upload_sessions' = r.sessions
            /\ disk' = r.disk
            /\ resolution' = Answer(nreq + 1, name, chunkIndex, authorization,
                                    IF r.status = 200 THEN 0 ELSE r.status, r.actual, r.path)
            /\ requests' = IF r.status = 200
                           THEN requests \cup {Answer(nreq + 1, name, chunkIndex,
                                                      authorization, 0, r.actual, r.path)}
                           ELSE requests
  /\ UNCHANGED <<clock, clientVars, chunkVars, path_mode, clients>>

\* the bytes of request r, told apart by the request they came with
RequestBody(r) ==
  [n |-> r.n, name |-> r.name, authorization |-> r.authorization,
   chunkIndex |-> r.chunkIndex]

\* handle_upload after request.body(): append the chunk and answer 200, or answer 500
UploadBody(r) ==
  /\ r \in requests
  /\ requests' = requests \ {r}
  /\ IF CanAppend(disk, r.path)
     THEN /\ disk' = AppendFile(disk, r.path, RequestBody(r))
          /\ resolution' = [r EXCEPT !.status = 200]
     ELSE /\ disk' = disk
          /\ resolution' = [r EXCEPT !.status = 500]
  /\ UNCHANGED <<clock, clientVars, chunkVars, path_mode, upload_sessions, nreq, clients>>

\* clear_sessions
ClearSessions ==
  /\ upload_sessions # {}
  /\ upload_sessions' = {}
  /\ UNCHANGED <<clock, clientVars, chunkVars, path_mode, disk, requests, resolution, nreq, clients>>

ServerInit(c) ==
  /\ ClientInit({DefaultConfig})
  /\ path_mode \in PathModes
  /\ upload_sessions = {}
  /\ disk = IF c.disk = "linked" THEN LinkedDisk ELSE EmptyDisk
  /\ requests = {}
  /\ resolution = NoAnswer
  /\ nreq = 0
  /\ clients = c
  /\ NoAddFile

ServerNext ==
  \/ /\ nreq < clients.requests
     /\ \E name \in ClientNames : \E i \in ChunkIndexes : \E h \in ClientHeaders :
          UploadRequest(name, i, h)
  \/ \E r \in requests : UploadBody(r)
  \/ ClearSessions
  \/ Tick

\* a server and clients that upload files in chunks, with and without a valid key
ServerSpec ==
  /\ ServerInit([names |-> "chunked", requests |-> MaxRequests, headers |-> "keyed",
                 disk |-> "empty"])
  /\ [][ServerNext]_vars

\* the same server and clients over an upload root that holds a dangling link
LinkSpec ==
  /\ ServerInit([names |-> "chunked", requests |-> MaxRequests, headers |-> "keyed",
                 disk |-> "linked"])
  /\ [][ServerNext]_vars

\* a server and one request with any filename of up to MaxNameLen characters and any header
PathSpec ==
  /\ ServerInit([names |-> "any", requests |-> 1, headers |-> "any", disk |-> "empty"])
  /\ [][ServerNext]_vars

\* ---- add_file on a file of given bytes
\* one turn of the read loop with bytes left: f.read, storage.save, chunk_index += 1
AddFileTurn ==
  /\ addReturn = None
  /\ \E chunk_data \in {Read(fileBytes, filePos, chunk_size)} :
       /\ chunk_data # <<>>
       /\ filePos' = filePos + Len(chunk_data)
       /\ chunkRows' = StorageSave(chunkRows, ChunkRecord("f", chunk_index, chunk_data, clock))
       /\ chunk_index' = chunk_index + 1
  /\ UNCHANGED <<clock, clientVars, serverVars, fileBytes, chunk_size, addReturn>>

\* the turn whose f.read gives no bytes: break, return chunk_index
AddFileReturn ==
  /\ addReturn = None
  /\ Read(fileBytes, filePos, chunk_size) = <<>>
  /\ addReturn' = chunk_index
  /\ UNCHANGED <<clock, clientVars, serverVars, fileBytes, chunk_size, filePos, chunk_index,
                 chunkRows>>

ChunkInit ==
  /\ ClientInit({DefaultConfig})
  /\ ServerOff
  /\ fileBytes \in FileContents
  /\ chunk_size \in ChunkSizes
  /\ filePos = 0
  /\ chunk_index = 0
  /\ chunkRows = <<>>
  /\ addReturn = None

ChunkNext == AddFileTurn \/ AddFileReturn

ChunkSpec == ChunkInit /\ [][ChunkNext]_vars

\* ---- add_file called again on a file whose bytes were replaced, between upload passes
\* files of 0..MaxFileSize equal bytes
PlainContents == {[i \in 1..n |-> 0] : n \in 0..MaxFileSize}

\* the file is written anew and add_file is called on it again
AddFileAgain ==
  /\ addReturn # None
  /\ fileBytes' \in PlainContents
  /\ filePos' = 0
  /\ chunk_index' = 0
  /\ addReturn' = None
  /\ UNCHANGED <<clock, clientVars, serverVars, chunk_size, chunkRows>>

\* one turn of the loop of _upload_file_chunks over a buffered chunk that is due: the
\* transport call succeeds and the record is deleted
DeliverChunk ==
  /\ \E k \in 1..Len(chunkRows) :
       /\ ~NotReady(chunkRows[k], clock * MsPerSecond)
       /\ ~MaxRetriesReached(chunkRows[k])
       /\ chunkRows' = StorageDelete(chunkRows, chunkRows[k].id)
  /\ UNCHANGED <<clock, clientVars, serverVars, fileBytes, chunk_size, filePos, chunk_index,
                 addReturn>>

\* the same turn when the transport call fails: the record is saved with its backoff
FailChunk ==
  /\ \E k \in 1..Len(chunkRows) :
       /\ ~NotReady(chunkRows[k], clock * MsPerSecond)
       /\ ~MaxRetriesReached(chunkRows[k])
       /\ chunkRows' =
            StorageSave(chunkRows,
                        Failed([chunkRows[k] EXCEPT !.lastAttempt = clock * MsPerSecond,
                                                    !.retryCount = @ + 1],
                               clock * MsPerSecond))
  /\ UNCHANGED <<clock, clientVars, serverVars, fileBytes, chunk_size, filePos, chunk_index,
                 addReturn>>

ReaddInit ==
  /\ ClientInit({QuietConfig})
  /\ ServerOff
  /\ fileBytes \in PlainContents
  /\ chunk_size \in ChunkSizes
  /\ filePos = 0
  /\ chunk_index = 0
  /\ chunkRows = <<>>
  /\ addReturn = None

ReaddNext ==
  \/ AddFileTurn
  \/ AddFileReturn
  \/ AddFileAgain
  \/ DeliverChunk
  \/ FailChunk

ReaddSpec == ReaddInit /\ [][ReaddNext]_vars

\* ---- the claims
Alive(t) == taskPc[t] \in {"loop", "pass", "sleep"}

StoredDelay(r) == r.nextRetry - r.lastAttempt

RECURSIVE Increasing(_)
Increasing(q) == Len(q) < 2 \/ (q[1] < q[2] /\ Increasing(Tail(q)))

\* the bytes of file f as add_file cut them
Original(f) == [i \in 1..ChunkCount(f) |-> <<f, i - 1>>]

\* every chunk of f was buffered and none is buffered or about to be stored again
AllLeft(f) ==
  /\ addCount[f] = 1
  /\ addFile # f
  /\ \A i \in 1..Len(storage) : storage[i].fileName # f
  /\ \A p \in Procs : pass[p].pend.fileName # f

\* C1: a chunk record leaves the buffer only in a step of a pass (manual or background)
\* whose transport call for that same chunk returned success; what a manual pass loaded
\* and did not deliver is in the buffer when it ends
C1_DeleteOnlyAfterSuccess ==
  [][/\ \A k \in StorageKeys(storage) :
          k \notin StorageKeys(storage') =>
            \E p \in Procs : /\ pass[p].pc = "delete"
                             /\ pass[p].tx = "ok"
                             /\ pass[p].pend.id = k
     /\ pass'[Caller].pc = "done" =>
          (pass'[Caller].loaded \ pass'[Caller].acked) \subseteq StorageKeys(storage')]_vars

\* a manual pass ended having delivered one chunk and failed another
C1_Witness ==
  /\ pass[Caller].pc = "done"
  /\ pass[Caller].acked # {}
  /\ pass[Caller].attempted \ pass[Caller].acked # {}

\* C2 (as claimed): once all chunk records of a file have left the buffer, the server
\* file holds every chunk once, in chunkIndex order
C2_ServerFileExact == \A f \in Files : AllLeft(f) => uploads[f] = Original(f)

\* a transport call for chunk k was made and storage.delete or storage.save is in flight
Transmitted(p, k) ==
  /\ pass[p].pend.id = k
  /\ \/ pass[p].pc = "delete"
     \/ pass[p].pc = "save" /\ pass[p].tx = "fail"

\* C3 (as claimed): a chunk that was acknowledged and deleted (no crash in between) is
\* never transmitted again and its record is not put back into the buffer
C3_NeverAgain ==
  \A k \in delivered : /\ ~HasKey(storage, k)
                       /\ \A p \in Procs : ~Transmitted(p, k)

\* C4: within one pass the chunks of a file group are transmitted in strictly
\* increasing chunkIndex order, whatever order the store returned them in
C4_IncreasingOrder == \A p \in Procs : Increasing(pass[p].sent)

\* two chunks were transmitted from a group the store returned out of order
C4_Witness ==
  \E p \in Procs : /\ Len(pass[p].sent) = 2
                   /\ pass[p].pc \in {"delete", "save"}
                   /\ pass[p].groups[pass[p].gi].chunks # pass[p].chunks

\* C5 (as claimed): upload_buffered_files ends, with its map or its error, only after
\* _upload_file_chunks has run for every file group
C5_AllGroupsProcessed ==
  pass[Caller].pc = "done" => pass[Caller].processed = pass[Caller].ngroups

\* C6: no record's retryCount exceeds max_retries, and no pass transmits a chunk whose
\* retryCount had reached max_retries
C6_MaxRetryCeiling ==
  /\ \A i \in 1..Len(storage) : storage[i].retryCount <= cfg.max_retries
  /\ \A p \in Procs : pass[p].pc \in {"delete", "save"} =>
                        pass[p].pend.retryCount <= cfg.max_retries

\* a manual pass ended without an attempt: the chunk it loaded was due and at max_retries
C6_Witness ==
  /\ pass[Caller].pc = "done"
  /\ pass[Caller].attempted = {}
  /\ \E i \in 1..Len(storage) : /\ storage[i].id \in pass[Caller].loaded
                                /\ storage[i].retryCount = cfg.max_retries
                                /\ storage[i].nextRetry <= pass[Caller].now

C8_NothingLeft ==
  (pass[Caller].pc = "done" /\ ~pass[Caller].raised) =>
     \A i \in 1..Len(storage) : storage[i].fileName \notin pass[Caller].results

\* C8 (amended): when upload_buffered_files returns a map, every chunk the call
\* transmitted was acknowledged and deleted by it; a record of a named file still in
\* the buffer is one the call did not transmit
C8_AttemptedAllDelivered ==
  (pass[Caller].pc = "done" /\ ~pass[Caller].raised) =>
     /\ pass[Caller].attempted = pass[Caller].acked
     /\ \A i \in 1..Len(storage) : storage[i].id \notin pass[Caller].attempted

\* a map was returned after a transmission, with a skipped record of a named file left
C8_Witness ==
  /\ pass[Caller].pc = "done"
  /\ ~pass[Caller].raised
  /\ pass[Caller].attempted # {}
  /\ \E i \in 1..Len(storage) : storage[i].fileName \in pass[Caller].results

AllKeys == {ChunkKey(f, i) : f \in Files, i \in 0..(MaxChunks - 1)}

\* C9: with max_retries unbounded and the scheduler running, once transport calls stop
\* failing every buffered chunk is eventually acknowledged and deleted, and the buffer
\* eventually becomes empty
C9_EventuallyDelivered ==
  /\ \A k \in AllKeys :
       (HasKey(storage, k) /\ background_upload_task # None)
         ~> (~HasKey(storage, k) /\ k \in delivered)
  /\ (background_upload_task # None) ~> (Len(storage) = 0)

\* the scheduler emptied the buffer although a transport call had failed twice: the
\* server holds a later chunk of the file before its first
C9_Witness ==
  /\ background_upload_task # None
  /\ Len(storage) = 0
  /\ delivered = {ChunkKey("a", 0), ChunkKey("a", 1)}
  /\ uploads["a"] = <<<<"a", 1>>, <<"a", 0>>>>
  /\ clock > MaxTime

C12_CallbacksNeverEndLoop ==
  [][\A t \in Tasks : (Alive(t) /\ ~cancelRequested[t]) => Alive(t)']_vars

\* C13 (as claimed): a caller that keeps asking for a stop gets it, whatever the
\* transport calls do: again and again no loop task is left
C13_StopAlwaysReturns == []<>(\A t \in Tasks : ~Alive(t))

\* the step is the arrival of an upload request
Arrives == nreq' = nreq + 1

\* the request just answered or resolved passed the key check
Admitted == resolution.n > 0 /\ resolution.status # 401

\* C14: in sanitize and ignore mode a session entry, once set, is changed by no later
\* chunk, and a request whose client filename has an entry resolves to that entry (until
\* clear_sessions)
C14_SessionStable ==
  [][/\ \A e \in upload_sessions :
          \A e2 \in upload_sessions' : e2.client = e.client => e2.actual = e.actual
     /\ (Arrives /\ path_mode \in {"sanitize", "ignore"} /\ resolution'.status = 0) =>
          \A e \in upload_sessions : e.client = resolution'.name =>
                                        resolution'.actual = e.actual]_vars

\* in ignore mode a later request resolved to the name made for the first one, at a time
\* when a new name would differ
C14_Witness ==
  /\ path_mode = "ignore"
  /\ resolution.n = 3
  /\ resolution.status = 0
  /\ clock = 2
  /\ StartsWith(resolution.actual, <<"0", "_">>)

\* C15 (as claimed): in sanitize mode the first chunk of an upload is never resolved to a
\* file that is already on the server, and writing it leaves every such file's bytes as
\* they were
C15_ReuploadDistinct ==
  [][(path_mode = "sanitize" /\ Arrives /\ resolution'.chunkIndex = 0
        /\ resolution'.status = 0) =>
       \A f \in disk.files : f.path # resolution'.path]_vars

\* the claim's reading of a filename that must be rejected: a path separator, '..', or an
\* absolute-path prefix
HasSeparator(name) == \E i \in 1..Len(name) : name[i] \in {"/", "\\"}

HasDotDot(name) == \E i \in 1..(Len(name) - 1) : name[i] = "." /\ name[i + 1] = "."

AbsolutePrefix(name) ==
  \/ (Len(name) > 0 /\ name[1] = "/")
  \/ (Len(name) > 1 /\ name[1] = "\\" /\ name[2] = "\\")
  \/ (Len(name) > 1 /\ name[2] = ":")

\* the filename without one leading './' and then one leading '.\'
PastDotPrefix(name) ==
  LET a == IF Len(name) > 1 /\ name[1] = "." /\ name[2] = "/"
           THEN SubSeq(name, 3, Len(name)) ELSE name
  IN IF Len(a) > 1 /\ a[1] = "." /\ a[2] = "\\" THEN SubSeq(a, 3, Len(a)) ELSE a

Unsafe(name) == HasSeparator(PastDotPrefix(name)) \/ HasDotDot(name) \/ AbsolutePrefix(name)

\* the client filenames that left a trace on the server
Traces ==
  {e.client : e \in upload_sessions} \cup {r.name : r \in requests}
    \cup UNION {{f.data[i].name : i \in 1..Len(f.data)} : f \in disk.files}

RelativeParts(name) ==
  LET a == IF Len(name) > 1 /\ name[1] = "." /\ name[2] \in {"/", "\\"}
           THEN SubSeq(name, 3, Len(name)) ELSE name
  IN PathParts([i \in 1..Len(a) |-> IF a[i] = "\\" THEN "/" ELSE a[i]])

\* a leading separator or a drive letter, after one leading './'
Rooted(name) ==
  LET a == PastDotPrefix(name)
  IN (Len(a) > 0 /\ a[1] \in {"/", "\\"}) \/ (Len(a) > 1 /\ a[2] = ":")

\* C17 (as claimed): in allow-paths mode a filename with '..' or an absolute or
\* drive-rooted prefix is answered with 400; any other is accepted, for the file at that
\* relative path under the upload root
C17_AllowPaths ==
  (path_mode = "allow-paths" /\ Admitted) =>
     IF HasDotDot(PastDotPrefix(resolution.name)) \/ Rooted(resolution.name)
     THEN resolution.status = 400
     ELSE /\ resolution.status \in {0, 200, 500}
          /\ resolution.path = UploadDir \o RelativeParts(resolution.name)

\* C18 (as claimed): every file the server wrote is inside the upload root
C18_InsideRoot ==
  \A f \in disk.files : IsPrefix(UploadDir, f.path) /\ f.path # UploadDir

\* the claim's reading of an authorized header
BearerKey(h) == h.present /\ \E key \in ApiKeys : h.value = Bearer \o key

\* 'Bearer <key>', or the key alone when the key does not itself start with 'Bearer '
Authorized(h) ==
  \/ BearerKey(h)
  \/ (h.present /\ \E key \in ApiKeys : h.value = key /\ ~(Len(key) >= Len(Bearer) /\ SubSeq(key, 1, Len(Bearer)) = Bearer))

\* C19 (as claimed): a request whose Authorization header is not 'Bearer <key>' with a
\* configured key is answered with 401 and changes neither the sessions nor any file
C19_BearerOnly ==
  [][(Arrives /\ ~BearerKey(resolution'.authorization)) =>
       (resolution'.status = 401 /\ UNCHANGED <<upload_sessions, disk, requests>>)]_vars

\* C19 (amended): a request is answered with 401, and changes neither the sessions nor any
\* file, unless its Authorization header is 'Bearer <key>' or '<key>' alone, for a
\* configured key; such a request is not answered with 401
C19_OnlyAuthorized ==
  [][Arrives =>
       IF Authorized(resolution'.authorization)
       THEN resolution'.status # 401
       ELSE resolution'.status = 401 /\ UNCHANGED <<upload_sessions, disk, requests>>]_vars

\* one request with a wrong key was answered 401 and left the server as it was
C19_Witness ==
  /\ resolution.status = 401
  /\ resolution.authorization = Header(Bearer \o <<"x">>)
  /\ resolution.name = <<"u">>
  /\ upload_sessions = {}
  /\ disk = EmptyDisk

\* the smallest n with n * c >= s
Ceil(s, c) == CHOOSE n \in 0..s : n * c >= s /\ (n = 0 \/ (n - 1) * c < s)

\* the saved record with a chunkIndex
RowAt(i) == CHOOSE r \in {chunkRows[k] : k \in 1..Len(chunkRows)} : r.chunkIndex = i

\* the bytes of the records 0..n-1, decoded and joined in chunkIndex order
RECURSIVE Joined(_)
Joined(n) == IF n = 0 THEN <<>> ELSE Joined(n - 1) \o FromHex(RowAt(n - 1).data)

\* C20: add_file on a file of S > 0 bytes with chunk size C returns ceil(S/C), has saved
\* one record for each chunkIndex 0..ceil(S/C)-1 and no other, each of 1..C bytes, and the
\* data of the records joined in chunkIndex order are the bytes of the file
C20_ChunkingRoundTrip ==
  addReturn # None =>
    /\ addReturn = Ceil(Len(fileBytes), chunk_size)
    /\ Len(chunkRows) = addReturn
    /\ {chunkRows[k].chunkIndex : k \in 1..Len(chunkRows)} = 0..(addReturn - 1)
    /\ \A k \in 1..Len(chunkRows) :
         /\ Len(chunkRows[k].data) >= 2
         /\ Len(chunkRows[k].data) <= 2 * chunk_size
    /\ Joined(addReturn) = fileBytes

\* a file whose size is no multiple of the chunk size, returned with a short last chunk
C20_Witness ==
  /\ addReturn = 2
  /\ chunk_size = 3
  /\ Len(fileBytes) = 4
  /\ fileBytes[1] = 171
  /\ fileBytes[4] = 10

\* a record as add_file stored it
Untouched(r) == r.retryCount = 0 /\ r.lastAttempt = None /\ r.errors = <<>>

\* C21: upload_buffered_files on a client without a server URL or without an API key
\* raises at once: no transport call is made, the buffer and every record in it stay as
\* they were
C21_FailFast ==
  [][(cfg.server_url = NoUrl \/ cfg.api_key = NoKey) =>
       /\ (callerPc = "idle" /\ callerPc' = "upload") =>
            /\ pass'[Caller].pc = "done"
            /\ pass'[Caller].raised
            /\ storage' = storage
       /\ pass'[Caller].attempted = {}
       /\ pass'[Caller].pc \notin {"loaded", "run", "delete", "save"}
       /\ uploads' = uploads
       /\ \A i \in 1..Len(storage') : Untouched(storage'[i])]_vars

\* a client without an API key had two files buffered when its upload call raised
C21_Witness ==
  /\ cfg.api_key = NoKey
  /\ callerPc = "upload"
  /\ pass[Caller].raised
  /\ Len(storage) = MaxChunks + 1

\* the step in which the background pass of task t returns
PassReturns(t) == taskPc[t] = "pass" /\ taskPc'[t] # "pass" /\ ~cancelRequested[t]

\* C22 (as claimed): a background pass of a client with an on_upload_complete callback
\* that ran _upload_file_chunks for at least one file calls the callback once when it
\* returns, with the numbers of files that succeeded and failed and their sum
C22_CompleteOnce ==
  [][\A t \in Tasks :
       (PassReturns(t) /\ cfg.complete_raises /\ pass'[t].processed >= 1) =>
          /\ pass'[t].report.calls = 1
          /\ pass'[t].report.succeeded = Cardinality(pass'[t].results)
          /\ pass'[t].report.failed = pass'[t].failed
          /\ pass'[t].report.total = pass'[t].processed]_vars

\* the stored record with key k
Stored(rows, k) == CHOOSE r \in {rows[i] : i \in 1..Len(rows)} : r.id = k

\* the backoff the claim gives for the n-th failure, in ms
Backoff(n) ==
  IF \E k \in 1..n : initial_retry_delay * Pow(retry_multiplier, k - 1) >= cfg.max_retry_delay
  THEN cfg.max_retry_delay * MsPerSecond
  ELSE initial_retry_delay * Pow(retry_multiplier, n - 1) * MsPerSecond

\* the caller's pass stores the record of the chunk whose transport call failed
SavesFailure ==
  pass[Caller].pc = "save" /\ pass'[Caller].pc # "save" /\ crashes' = crashes

\* C23: a chunk answered with 401 is not delivered and not deleted; its record is stored
\* with retryCount one higher and nextRetry a backoff delay after the pass time, as for
\* any transport failure, and a later pass attempts it again while retryCount is below
\* max_retries
C23_UnauthorizedRetried ==
  [][/\ pass'[Caller].reply.status = 401 =>
          /\ pass'[Caller].pc # "delete"
          /\ uploads' = uploads
          /\ StorageKeys(storage) \subseteq StorageKeys(storage')
     /\ (SavesFailure /\ pass[Caller].reply.status = 401) =>
          LET loaded == pass[Caller].chunks[pass[Caller].ci]
              saved == Stored(storage', loaded.id)
          IN /\ HasKey(storage', loaded.id)
             /\ saved.retryCount = loaded.retryCount + 1
             /\ saved.retryCount <= cfg.max_retries
             /\ saved.lastAttempt = pass[Caller].now
             /\ saved.nextRetry = pass[Caller].now + Backoff(saved.retryCount)
             /\ saved.data = loaded.data]_vars

\* a chunk was refused with 401 in one pass and again in a later one, up to max_retries
C23_Witness ==
  /\ cfg.api_key = <<"x">>
  /\ pass[Caller].pc = "save"
  /\ pass[Caller].reply.status = 401
  /\ pass[Caller].pend.retryCount = cfg.max_retries
  /\ Len(pass[Caller].pend.errors) = SmallRetries

\* the caller's pass made a transport call that failed
AttemptFails ==
  /\ pass[Caller].pc \in {"loaded", "run"}
  /\ pass'[Caller].attempted # pass[Caller].attempted
  /\ pass'[Caller].pc # "delete"

\* C25 (as claimed): every failed attempt at time now is stored: the record keeps id,
\* fileName, chunkIndex and data, its retryCount is one higher, lastAttempt is now, now is
\* appended to its errors, and nextRetry is now plus the capped backoff
C25_FailureRecorded ==
  [][/\ AttemptFails => pass'[Caller].pc = "save"
     /\ SavesFailure =>
          LET loaded == pass[Caller].chunks[pass[Caller].ci]
              saved == Stored(storage', loaded.id)
          IN /\ HasKey(storage', loaded.id)
             /\ saved.retryCount = loaded.retryCount + 1
             /\ saved.lastAttempt = pass[Caller].now
             /\ saved.errors = LastErrors(Append(loaded.errors, pass[Caller].now))
             /\ saved.nextRetry = pass[Caller].now + Backoff(saved.retryCount)
             /\ saved.fileName = loaded.fileName
             /\ saved.chunkIndex = loaded.chunkIndex
             /\ saved.data = loaded.data]_vars

\* the caller's pass ends
PassEnds == pass[Caller].pc # "done" /\ pass'[Caller].pc = "done"

\* C27 (as claimed): a stored record never has more than 5 error entries; a failure
\* appends its time and keeps the last 5, and when a pass ends the newest entry of every
\* chunk whose attempt failed in it is that failure
C27_LastFiveErrors ==
  [][/\ \A i \in 1..Len(storage') : Len(storage'[i].errors) <= MaxErrors
     /\ SavesFailure =>
          LET loaded == pass[Caller].chunks[pass[Caller].ci]
              saved == Stored(storage', loaded.id)
          IN /\ HasKey(storage', loaded.id)
             /\ saved.errors = LastErrors(Append(loaded.errors, pass[Caller].now))
     /\ PassEnds =>
          \A k \in pass'[Caller].attempted \ pass'[Caller].acked :
             /\ HasKey(storage', k)
             /\ Stored(storage', k).errors # <<>>
             /\ Stored(storage', k).errors[Len(Stored(storage', k).errors)]
                  = pass'[Caller].now]_vars

\* the records a pass holds, as storage.load_all returned them
PassRecords(s) ==
  {s.records[i] : i \in 1..Len(s.records)}
    \cup UNION {{s.groups[g].chunks[i] : i \in 1..Len(s.groups[g].chunks)} :
                  g \in 1..Len(s.groups)}

\* pass p makes the transport call for the chunk with key k
Transmits(p, k) ==
  /\ pass[p].pc \in {"loaded", "run"}
  /\ k \in pass'[p].attempted \ pass[p].attempted

\* the stored record with key k is changed or removed
Rewritten(k) ==
  HasKey(storage, k) /\ (HasKey(storage', k) => Stored(storage', k) # Stored(storage, k))

\* C26: a pass transmits a chunk only if the nextRetry of the record it loaded is not
\* later than the time the pass took for the chunk's file, and a step of a pass changes or
\* removes no stored record but the one of the chunk it has just transmitted
C26_NotDueUntouched ==
  [][\A p \in Procs :
       /\ \A k \in StorageKeys(storage) \cup pass'[p].attempted :
            Transmits(p, k) =>
               \A r \in PassRecords(pass[p]) : r.id = k => r.nextRetry <= pass'[p].now
       /\ (pass'[p] # pass[p] /\ crashes' = crashes) =>
            \A k \in StorageKeys(storage) :
               Rewritten(k) => /\ pass[p].pc \in {"delete", "save"}
                               /\ k = pass[p].pend.id
                               /\ k \in pass[p].attempted]_vars

\* a manual pass has returned without attempting a loaded chunk that had failed before
\* and whose nextRetry is later than the pass time; its record is still stored
C26_Witness ==
  /\ pass[Caller].pc = "done"
  /\ pass[Caller].kind = "manual"
  /\ pass[Caller].processed >= 1
  /\ \E i \in 1..Len(storage) :
        /\ storage[i].id \in pass[Caller].loaded \ pass[Caller].attempted
        /\ storage[i].retryCount >= 1
        /\ storage[i].nextRetry > pass[Caller].now

\* upload_buffered_files has returned or raised after loading the records
ManualDone ==
  pass[Caller].pc = "done" /\ pass[Caller].kind = "manual" /\ ~RaisesValueError(cfg)

\* no chunk of file f was attempted by the caller's pass
Unattempted(f) == \A k \in pass[Caller].attempted : k[1] # f

\* C28: upload_buffered_files raises only if a chunk it attempted was not delivered, and
\* when it returns, every file it loaded a record of is in its result, the files none of
\* whose chunks was attempted included
C28_SkippedFileSucceeds ==
  ManualDone =>
    /\ pass[Caller].raised => pass[Caller].attempted \ pass[Caller].acked # {}
    /\ ~pass[Caller].raised => \A k \in pass[Caller].loaded : k[1] \in pass[Caller].results

\* upload_buffered_files returned a result with a file whose only chunk had failed before
\* and was not attempted, its record still stored
C28_Witness ==
  /\ ManualDone
  /\ ~pass[Caller].raised
  /\ \E i \in 1..Len(storage) :
        /\ storage[i].id \in pass[Caller].loaded
        /\ storage[i].retryCount >= 1
        /\ Unattempted(storage[i].fileName)
        /\ storage[i].fileName \in pass[Caller].results

\* the actualFilename values the successful responses for file f carried, in order
Carried(f) ==
  SelectSeq(pass[Caller].replies, LAMBDA r : r[1] = f /\ r[2] # NoName)

\* C29 (as claimed): every 200 response counts as a success, after which the chunk is
\* deleted; in the result of upload_buffered_files the value of a file is the
\* actualFilename of the first successful response of the pass for it that carried one,
\* and without such a response the last component of the client file name
C29_ResultNames ==
  [][/\ \A k \in pass'[Caller].attempted :
          (Transmits(Caller, k) /\ pass'[Caller].reply.status = 200) =>
             pass'[Caller].pc = "delete"
     /\ ManualDone' =>
          \A n \in pass'[Caller].names :
             n[2] = IF Carried(n[1])' # <<>> THEN (Carried(n[1])[1][2])' ELSE <<n[1]>>]_vars

\* add_file is running for the first time on the file it reads
FirstAdd == callerPc = "adding" /\ addCount[addFile] = 1

\* the chunk indexes stored for file f
StoredIndexes(f) == {storage[i].chunkIndex : i \in {j \in 1..Len(storage) : storage[j].fileName = f}}

\* add_file stores its next chunk
StoresChunk == callerPc = "adding" /\ storage' # storage /\ addCount' = addCount /\
               (addIndex' = addIndex + 1 \/ callerPc' = "idle") /\ crashes' = crashes

\* C30 (as claimed): while add_file runs on a file that had no buffered records, the
\* chunk indexes stored for the file are 0..k-1 for some k, before and after every change
\* of the buffer
C30_StoredPrefix ==
  [][(FirstAdd /\ storage' # storage /\ crashes' = crashes) =>
        \E f \in {addFile} :
           /\ \E k \in 0..ChunkCount(f) : StoredIndexes(f) = 0..(k - 1)
           /\ \E k \in 0..ChunkCount(f) : StoredIndexes(f)' = 0..(k - 1)]_vars

\* C30 (amended): while add_file runs on a file that had no buffered records, no chunk
\* index at or above the next one to save is stored, and every index below it is stored
\* or was uploaded and deleted by a pass running meanwhile; the record add_file stores
\* has retryCount 0, lastAttempt None, nextRetry the time of the save and no errors
C30_SavedInOrder ==
  [][/\ FirstAdd =>
          /\ StoredIndexes(addFile) \subseteq 0..(addIndex - 1)
          /\ \A i \in 0..(addIndex - 1) :
                i \in StoredIndexes(addFile) \/ ChunkKey(addFile, i) \in delivered
     /\ StoresChunk =>
          LET k == ChunkKey(addFile, addIndex)
          IN /\ HasKey(storage', k)
             /\ Stored(storage', k).fileName = addFile
             /\ Stored(storage', k).chunkIndex = addIndex
             /\ Stored(storage', k).retryCount = 0
             /\ Stored(storage', k).lastAttempt = None
             /\ Stored(storage', k).nextRetry = clock * MsPerSecond
             /\ Stored(storage', k).errors = <<>>]_vars

\* add_file is about to save the second chunk of a file, later than it began, and the
\* first chunk has been uploaded and deleted meanwhile
C30_Witness ==
  /\ FirstAdd
  /\ addIndex = 1
  /\ clock >= 1
  /\ StoredIndexes(addFile) = {}
  /\ ChunkKey(addFile, 0) \in delivered

\* C31 (as claimed): the buffered records of a file have pairwise distinct chunkIndex
\* values, and whenever add_file has returned N for the file they are all below N
C31_IndexesInRange ==
  /\ \A j, k \in 1..Len(chunkRows) :
        chunkRows[j].chunkIndex = chunkRows[k].chunkIndex => j = k
  /\ addReturn # None =>
        \A k \in 1..Len(chunkRows) : chunkRows[k].chunkIndex \in 0..(addReturn - 1)

\* C32 (as claimed): whenever a background pass has ended and the loop goes on, by
\* returning or by raising, the loop task is in its sleep
C32_SleepsAfterPass ==
  [][\A t \in Tasks :
       (PassReturns(t) /\ taskPc'[t] # "done") => taskPc'[t] = "sleep"]_vars

\* stop_upload_background, called now, returns at once: the caller is idle and there is
\* no task that is not done
StopIsNoOp == callerPc = "idle" /\ ~AlreadyRunning(background_upload_task)

\* C33 (as claimed): in every state stop_upload_background has returned in, or returns in
\* without a change, background_upload_task is None and no loop task is in its loop, in
\* a pass or in its sleep
C33_StoppedMeansOff ==
  StopIsNoOp => /\ background_upload_task = None
                /\ \A t \in Tasks : ~Alive(t)

\* C34 (as claimed): a request answered with 400 or 403 leaves the session map and the
\* files and directories of the host as they were
C34_RejectionChangesNothing ==
  [][(Arrives /\ resolution'.status \in {400, 403}) =>
        /\ upload_sessions' = upload_sessions
        /\ disk' = disk]_vars

\* C35: the content of a file changes only when the server handles the body of a request
\* that resolved to it, by that body being put at its end whatever X-Chunk-Index the
\* request carried; no file is removed
C35_AppendedInOrderHandled ==
  [][/\ FilePaths(disk) \subseteq FilePaths(disk')
     /\ \A p \in FilePaths(disk') :
          FileData(disk', p) # FileData(disk, p) =>
             \E r \in requests :
                /\ r.path = p
                /\ requests' = requests \ {r}
                /\ resolution' = [r EXCEPT !.status = 200]
                /\ FileData(disk', p) = Append(FileData(disk, p), RequestBody(r))
     /\ (requests' # requests /\ nreq' = nreq /\ resolution'.status = 200) =>
          FileData(disk', resolution'.path) # FileData(disk, resolution'.path)]_vars

\* a file holds the bytes sent with X-Chunk-Index 1 before those sent with index 0
C35_Witness ==
  \E f \in disk.files :
     /\ Len(f.data) = 2
     /\ f.data[1].chunkIndex = 1
     /\ f.data[2].chunkIndex = 0
     /\ f.data[1].name = f.data[2].name

\* C36: a pass makes the transport call for a chunk only when the buffer holds no record
\* of the same file with a lower chunkIndex
C36_LowerIndexFirst ==
  [][\A p \in Procs : \A k \in StorageKeys(storage) :
       Transmits(p, k) =>
          \A j \in StorageKeys(storage) :
             ~ /\ Stored(storage, j).fileName = Stored(storage, k).fileName
               /\ Stored(storage, j).chunkIndex < Stored(storage, k).chunkIndex]_vars

\* C37: while upload_buffered_files and a background pass are both in flight, no chunk is
\* transmitted by both, and a record that a pass deleted does not come back to the buffer
C37_NoChunkHandledTwice ==
  [][/\ \A t \in Tasks : pass'[Caller].attempted \cap pass'[t].attempted = {}
     /\ \A k \in delivered : ~HasKey(storage, k) => ~HasKey(storage', k)]_vars

\* C38: in sanitize mode two upload sessions with different client filenames never have
\* the same server output file
C38_SessionsApart ==
  path_mode = "sanitize" =>
     \A e1, e2 \in upload_sessions : e1.client # e2.client => e1.actual # e2.actual

\* C39: after every step, background_upload_running is false unless a loop task is inside
\* a pass (also when the step is a pass raising or being cancelled), so a loop task at
\* the top of its loop, started again after a stop or not, goes into a pass
C39_FlagOnlyDuringPass ==
  [][/\ ~PassInFlight' => ~background_upload_running'
     /\ \A t \in Tasks :
          (taskPc[t] = "loop" /\ taskPc'[t] # "loop") => taskPc'[t] \in {"pass", "done"}]_vars

\* stop_upload_background has cancelled the loop task while its pass, the flag set, waits
\* for storage.delete
C39_Witness ==
  /\ callerPc = "stopping"
  /\ \E t \in Tasks :
       /\ cancelRequested[t]
       /\ taskPc[t] = "pass"
       /\ pass[t].pc = "delete"
       /\ background_upload_running

\* the rows of the chunks table
Rows == {storage[i] : i \in 1..Len(storage)}

====
